---- MODULE Spec2Model ----
(***************************************************************************)
(* A model of token-splitter: the token counter (src/tokenizer.ts), the    *)
(* text chunk packer (src/splitText.ts), the streaming CSV row packer      *)
(* (src/splitCsv.ts) and the split command of the command line             *)
(* (src/cli.ts).                                                           *)
(*                                                                         *)
(* A JavaScript string is a sequence of one-character strings, so that     *)
(* slicing, trimming, joining and parsing are computed and not assumed.    *)
(***************************************************************************)
EXTENDS Integers, Sequences, FiniteSets, TLC

VARIABLES
    \* ---- src/tokenizer.ts, module state
    cachedEncode,     \* "null", or the name of the encoding the cached encoder uses
    cachedFree,       \* TRUE iff cachedFree holds a release closure
    encoders,         \* every encoder created so far: its encoding, whether freed
    \* ---- withTokenizer(fn)
    scope,            \* "none", "running" (fn runs), "finally", "settled"
    fnOutcome,        \* how fn ended: its kind (returned, threw) and value
    delivered,        \* what withTokenizer's promise settled with
    tasks,            \* overlapping callers of the counter: where each stands
    \* ---- the command line: `token-splitter split`, one process per run
    argv,             \* the flags given to the run under way
    clock,            \* the wall clock, in seconds of the day
    run,              \* the number of the run under way
    outDir,           \* the run's output directory
    runDirs,          \* history: the output directory of every run so far
    disk,             \* the files under the working directory: who wrote each
    \* ---- the environment and the arguments of the call under way
    tiktokenOk,       \* whether `import('tiktoken')` yields a usable encoder
    opts,             \* the options record of the call
    text,             \* splitTextIntoTokenChunks: the input text
    inputExists,      \* splitCsvByTokens: whether inputPath exists
    stream,           \* splitCsvByTokens: the lines readline yields, in order
    \* ---- the position of the call and what it has done
    pc,               \* where the call stands
    error,            \* "none", or the error the call threw
    nCounts,          \* number of countTokens calls issued so far
    countLog,         \* history: the countTokens calls issued so far, in order
    ioLog,            \* the I/O operations performed so far (a set of names)
    currentTokens,    \* both packers: token total of the open chunk / part
    \* ---- splitTextIntoTokenChunks locals
    units, idx, chunks, tokenCounts, current, remaining, slice,
    origin,           \* history: for each chunk, the units it was made from
    \* ---- splitCsvByTokens locals and the output directory
    header, part, currentLines, partPaths, pos, files

tokVars  == <<cachedEncode, cachedFree, encoders>>
scopeVars == <<scope, fnOutcome, delivered, tasks>>
cliVars  == <<argv, clock, run, outDir, runDirs, disk>>
envVars  == <<tiktokenOk, opts, text, inputExists, stream>>
textVars == <<units, idx, chunks, tokenCounts, current, remaining, slice, origin>>
csvVars  == <<header, part, currentLines, partPaths, pos, files>>
vars == <<tokVars, scopeVars, cliVars, envVars, pc, error, nCounts, countLog, ioLog,
          currentTokens, textVars, csvVars>>

-----------------------------------------------------------------------------
(* Characters and strings                                                   *)

NL == "\n"
CR == "\r"
SP == " "
QUOTE == "\""
COMMA == ","
\* Stands for a special-token literal such as <|endoftext|>, which the exact
\* encoder refuses to encode.
SPECIAL == "#"

\* What /\s/ and String.prototype.trim treat as white space.
WhiteSpace == {SP, NL, CR, "\t"}

\* The character class of approximateTokenCount: . , ; : ! ? ( ) [ ] { } " '
Punctuation == {".", ",", ";", ":", "!", "?", "(", ")", "[", "]", "{", "}", QUOTE, "'"}

\* [A-Z0-9"“‘(\[] : what may start a sentence for splitIntoSentences.
SentenceStart == {"A", "0", QUOTE, "(", "["}

\* [.!?] : what may end one.
SentenceEnd == {".", "!", "?"}

Rep(c, n) == [i \in 1..n |-> c]

Min(a, b) == IF a < b THEN a ELSE b
Max(a, b) == IF a > b THEN a ELSE b

\* A quotient rounded down where the code rounds up.
CeilDivRoundsDown(a, b) == a \div b

\* Math.ceil(a / b) for a >= 0, b > 0
CeilDiv(a, b) == (a + b - 1) \div b

\* s.slice(0, n)
SliceTo(s, n) == SubSeq(s, 1, Min(n, Len(s)))

\* s.slice(n)
SliceFrom(s, n) == SubSeq(s, n + 1, Len(s))

\* Index of the first non-white-space character, Len(s)+1 if there is none.
FirstNonWs(s) ==
    LET I == {i \in 1..Len(s) : s[i] \notin WhiteSpace}
    IN IF I = {} THEN Len(s) + 1 ELSE CHOOSE i \in I : \A j \in I : i <= j

\* Index of the last non-white-space character, 0 if there is none.
LastNonWs(s) ==
    LET I == {i \in 1..Len(s) : s[i] \notin WhiteSpace}
    IN IF I = {} THEN 0 ELSE CHOOSE i \in I : \A j \in I : i >= j

TrimStart(s) == SubSeq(s, FirstNonWs(s), Len(s))
TrimEnd(s) == SubSeq(s, 1, LastNonWs(s))
Trim(s) == SubSeq(s, FirstNonWs(s), LastNonWs(s))

RECURSIVE Concat(_)
\* parts.join("")
Concat(parts) ==
    IF parts = <<>> THEN <<>> ELSE Head(parts) \o Concat(Tail(parts))

RECURSIVE Join(_, _)
\* parts.join(sep)
Join(parts, sep) ==
    IF parts = <<>> THEN <<>>
    ELSE IF Len(parts) = 1 THEN parts[1]
    ELSE parts[1] \o sep \o Join(Tail(parts), sep)

RECURSIVE SplitOn(_, _)
\* s.split(c) for a one-character separator c
SplitOn(s, c) ==
    LET I == {i \in 1..Len(s) : s[i] = c}
    IN IF I = {} THEN <<s>>
       ELSE LET k == CHOOSE i \in I : \A j \in I : i <= j
            IN <<SubSeq(s, 1, k - 1)>> \o SplitOn(SubSeq(s, k + 1, Len(s)), c)

RECURSIVE SumSeq(_)
SumSeq(ns) == IF ns = <<>> THEN 0 ELSE Head(ns) + SumSeq(Tail(ns))

-----------------------------------------------------------------------------
(* src/tokenizer.ts                                                         *)

\* text.replace(/\s+/g, ' '): of every run of white space the first character
\* stays, as a blank, and the others go.
CollapseWs(s) ==
    LET kept == SelectSeq([i \in 1..Len(s) |-> i],
                    LAMBDA i : s[i] \notin WhiteSpace \/ i = 1 \/ s[i - 1] \notin WhiteSpace)
    IN [j \in 1..Len(kept) |-> IF s[kept[j]] \in WhiteSpace THEN SP ELSE s[kept[j]]]

Normalize(s) == Trim(CollapseWs(s))

approximateTokenCount(s) ==
    LET normalized == Normalize(s)
        punct == Cardinality({i \in 1..Len(normalized) : normalized[i] \in Punctuation})
        chars == Len(normalized)
        base == CeilDiv(chars, 4)
        bump == CeilDiv(punct, 6)
    IN IF normalized = <<>> THEN 0 ELSE Max(1, base + bump)

\* The encodings the tiktoken package can hand out.
Encodings == {"cl100k_base", "o200k_base"}

\* encoding_for_model(modelHint): the encoding of a model hint; "none" is a
\* missing hint, "unknown" a hint tiktoken rejects (the inner catch).
Models == {"none", "gpt-4o", "unknown"}
encoding_for_model(modelHint) ==
    IF modelHint = "gpt-4o" THEN "o200k_base" ELSE "null"

\* enc.encode(text) throws on text holding a special token.
EncodeThrows(s) == \E i \in 1..Len(s) : s[i] = SPECIAL

\* enc.encode(text).length. The encoder is an external dependency; it is
\* stood for by two deterministic tokenisations: cl100k_base yields one token
\* per character (the densest a byte-pair encoder gets), o200k_base one token
\* per maximal run of non-white-space characters.
EncodeLength(enc, s) ==
    IF enc = "cl100k_base" THEN Len(s)
    ELSE Cardinality({i \in 1..Len(s) :
            s[i] \notin WhiteSpace /\ (i = 1 \/ s[i - 1] \in WhiteSpace)})

\* initTiktoken(modelHint): the value of cachedEncode when it returns.
InitTiktoken(cache, ok, modelHint) ==
    IF cache # "null" THEN cache
    ELSE IF ~ok THEN "null"
    ELSE IF encoding_for_model(modelHint) # "null"
         THEN encoding_for_model(modelHint)
         ELSE "cl100k_base"

\* A counter that asks for the encoder even when told to approximate.
CounterForIgnoresApproximate(cache, ok, o) ==
    IF InitTiktoken(cache, ok, o.model) # "null"
    THEN InitTiktoken(cache, ok, o.model)
    ELSE "approx"

\* countTokens(text, {model, approximate}) called with this cache:
\* the encoder that counts, "approx" for approximateTokenCount.
CounterFor(cache, ok, o) ==
    IF o.approximate THEN "approx"
    ELSE IF InitTiktoken(cache, ok, o.model) # "null"
         THEN InitTiktoken(cache, ok, o.model)
         ELSE "approx"

\* A counter that swallows the encoder's error instead of letting it through.
CountThrowsSwallowed(cache, ok, o, s) == FALSE

\* Whether that call throws.
CountThrows(cache, ok, o, s) ==
    CounterFor(cache, ok, o) # "approx" /\ EncodeThrows(s)

\* What it returns when it does not.
CountTokens(cache, ok, o, s) ==
    IF CounterFor(cache, ok, o) = "approx" THEN approximateTokenCount(s)
    ELSE EncodeLength(CounterFor(cache, ok, o), s)

\* The cache after the call (approximate calls leave it alone).
CacheAfter(cache, ok, o) ==
    IF o.approximate THEN cache ELSE InitTiktoken(cache, ok, o.model)

\* The encoders created so far after the call: initTiktoken creates one when
\* the cache is empty and tiktoken yields one.
EncodersAfter(encs, cache, ok, o) ==
    IF cache = "null" /\ CacheAfter(cache, ok, o) # "null"
    THEN Append(encs, [encoding |-> CacheAfter(cache, ok, o), freed |-> FALSE])
    ELSE encs

\* The record of one countTokens call for the history: what was counted, with
\* which options, on which cache, and what came of it.
LogEntry(kind, cache, ok, o, s) ==
    [kind |-> kind, text |-> s,
     o |-> [model |-> o.model, approximate |-> o.approximate],
     before |-> cache,
     after |-> CacheAfter(cache, ok, o),
     threw |-> CountThrows(cache, ok, o, s),
     result |-> IF CountThrows(cache, ok, o, s) THEN 0 ELSE CountTokens(cache, ok, o, s)]

-----------------------------------------------------------------------------
(* src/splitCsv.ts                                                          *)

RECURSIVE ParseFrom(_, _, _, _, _, _, _)
\* The loop of parseCsvLine from index i on, with its locals cur, inQuotes, cells.
ParseFrom(line, delimiter, quote, i, cur, inQuotes, cells) ==
    IF i > Len(line) THEN Append(cells, cur)
    ELSE IF line[i] = quote
         THEN IF inQuotes /\ i + 1 <= Len(line) /\ line[i + 1] = quote
              THEN ParseFrom(line, delimiter, quote, i + 2, Append(cur, quote), inQuotes, cells)
              ELSE ParseFrom(line, delimiter, quote, i + 1, cur, ~inQuotes, cells)
    ELSE IF ~inQuotes /\ line[i] = delimiter
         THEN ParseFrom(line, delimiter, quote, i + 1, <<>>, inQuotes, Append(cells, cur))
    ELSE ParseFrom(line, delimiter, quote, i + 1, Append(cur, line[i]), inQuotes, cells)

parseCsvLine(line, delimiter, quote) ==
    ParseFrom(line, delimiter, quote, 1, <<>>, FALSE, <<>>)

\* tokenMode = 'line' when the option is left out.
TokenMode(o) == IF o.tokenMode = "undefined" THEN "line" ELSE o.tokenMode

\* The text whose tokens are counted for a row.
RowTextForTokens(o, line) ==
    IF TokenMode(o) = "cells"
    THEN Join(parseCsvLine(line, COMMA, QUOTE), <<SP, "|", SP>>)
    ELSE line

\* line.trim().length === 0
IsBlank(line) == Len(Trim(line)) = 0

\* String(n) for n >= 0
RECURSIVE ToDigits(_)
ToDigits(n) ==
    LET d == <<"0", "1", "2", "3", "4", "5", "6", "7", "8", "9">>[(n % 10) + 1]
    IN IF n < 10 THEN <<d>> ELSE ToDigits(n \div 10) \o <<d>>

\* s.padStart(width, c)
PadStart(s, width, c) == Rep(c, Max(0, width - Len(s))) \o s

\* `${base}_part${String(part).padStart(3, '0')}.csv`, base standing for "in"
OutPath(n) ==
    <<"i", "n", "_", "p", "a", "r", "t">> \o PadStart(ToDigits(n), 3, "0")
        \o <<".", "c", "s", "v">>

\* A part written without the header line.
PartContentNoHeader(h, lines) == Join(lines, <<NL>>) \o <<NL>>

\* [header, ...currentLines].join('\n') + '\n'
PartContent(h, lines) == Join(<<h>> \o lines, <<NL>>) \o <<NL>>

\* A flush that writes a part even when no row is open.
NothingToFlushNever(lines) == FALSE

\* `let header: string | null = null`. The code only ever tests `!header`,
\* which null and the empty string both satisfy; null is the empty string here.
NoHeader == <<>>

\* `if (currentLines.length === 0) return;` of flushPart
NothingToFlush(lines) == Len(lines) = 0

\* `rowTokens > maxTokens`
RowTooBig(rowTokens, maxTokens) == rowTokens > maxTokens

\* The overflow test without the row's own count.
RowOverflowsIgnoresRow(cur, rowTokens, maxTokens) == cur > maxTokens

\* The overflow test closing a part that the row would fill exactly.
RowOverflowsEager(cur, rowTokens, maxTokens) == cur + rowTokens >= maxTokens

\* `currentTokens + rowTokens > maxTokens`
RowOverflows(cur, rowTokens, maxTokens) == cur + rowTokens > maxTokens

\* A flush that empties the open part's rows and keeps its token total.
WritePartKeepsTokens(h, st) ==
    LET outPath == OutPath(st.part + 1)
    IN [part |-> st.part + 1,
        currentLines |-> <<>>,
        currentTokens |-> st.currentTokens,
        partPaths |-> Append(st.partPaths, outPath),
        files |-> [p \in DOMAIN st.files \cup {outPath} |->
                     IF p = outPath THEN PartContent(h, st.currentLines)
                     ELSE st.files[p]],
        io |-> st.io \cup {"writeFileSync"},
        threw |-> FALSE]

\* The body of flushPart() after its two early exits: the next index, the
\* path, the write, the reset of the open part.
WritePart(h, st) ==
    LET outPath == OutPath(st.part + 1)
    IN [part |-> st.part + 1,
        currentLines |-> <<>>,
        currentTokens |-> 0,
        partPaths |-> Append(st.partPaths, outPath),
        files |-> [p \in DOMAIN st.files \cup {outPath} |->
                     IF p = outPath THEN PartContent(h, st.currentLines)
                     ELSE st.files[p]],
        io |-> st.io \cup {"writeFileSync"},
        threw |-> FALSE]

\* flushPart() with its two early exits in the other order.
FlushPartRowsFirst(h, st) ==
    IF NothingToFlush(st.currentLines) THEN st
    ELSE IF h = NoHeader THEN [st EXCEPT !.threw = TRUE]
    ELSE WritePart(h, st)

\* flushPart() on the locals st = [part, currentLines, currentTokens,
\* partPaths, files, io, threw]; threw is set when it throws 'Missing header'.
FlushPart(h, st) ==
    IF h = NoHeader THEN [st EXCEPT !.threw = TRUE]
    ELSE IF NothingToFlush(st.currentLines) THEN st
    ELSE WritePart(h, st)

Locals == [part |-> part, currentLines |-> currentLines,
           currentTokens |-> currentTokens, partPaths |-> partPaths,
           files |-> files, io |-> ioLog, threw |-> FALSE]

SetLocals(st) ==
    /\ part' = st.part
    /\ currentLines' = st.currentLines
    /\ currentTokens' = st.currentTokens
    /\ partPaths' = st.partPaths
    /\ files' = st.files
    /\ ioLog' = st.io

\* The body of the row loop after the count returned rowTokens.
PlaceRow(h, st, line, rowTokens, maxTokens) ==
    IF RowTooBig(rowTokens, maxTokens)
    THEN FlushPart(h, [FlushPart(h, st) EXCEPT !.currentLines = <<line>>,
                                               !.currentTokens = rowTokens])
    ELSE LET s2 == IF RowOverflows(st.currentTokens, rowTokens, maxTokens)
                   THEN FlushPart(h, st) ELSE st
         IN [s2 EXCEPT !.currentLines = Append(s2.currentLines, line),
                       !.currentTokens = s2.currentTokens + rowTokens]

\* splitCsvByTokens up to the row loop: the checks, mkdirSync, the stream.
CsvStart ==
    /\ pc = "csv_start"
    /\ UNCHANGED <<tokVars, scopeVars, cliVars, envVars, nCounts, countLog, currentTokens, textVars, csvVars>>
    /\ IF ~inputExists
       THEN /\ ioLog' = ioLog \cup {"existsSync"}
            /\ error' = "InputNotFound"
            /\ pc' = "failed"
       ELSE IF opts.maxTokens <= 0
       THEN /\ ioLog' = ioLog \cup {"existsSync"}
            /\ error' = "ConfigurationError"
            /\ pc' = "failed"
       ELSE IF ~opts.assumeNoMultilineFields
       THEN /\ ioLog' = ioLog \cup {"existsSync", "mkdirSync"}
            /\ error' = "UnsupportedModeError"
            /\ pc' = "failed"
       ELSE /\ ioLog' = ioLog \cup {"existsSync", "mkdirSync", "createReadStream"}
            /\ error' = "none"
            /\ pc' = "csv_loop"

\* One turn of `for await (const line of rl)` on a blank line.
CsvSkipBlank ==
    /\ pc = "csv_loop"
    /\ pos < Len(stream)
    /\ IsBlank(stream[pos + 1])
    /\ pos' = pos + 1
    /\ UNCHANGED <<tokVars, scopeVars, cliVars, envVars, pc, error, nCounts, countLog, ioLog, currentTokens,
                   textVars, header, part, currentLines, partPaths, files>>

\* One turn on the first non-blank line.
CsvHeader ==
    /\ pc = "csv_loop"
    /\ pos < Len(stream)
    /\ ~IsBlank(stream[pos + 1])
    /\ header = NoHeader
    /\ header' = stream[pos + 1]
    /\ pos' = pos + 1
    /\ UNCHANGED <<tokVars, scopeVars, cliVars, envVars, pc, error, nCounts, countLog, ioLog, currentTokens,
                   textVars, part, currentLines, partPaths, files>>

\* One turn on a data row: count it, then place it.
CsvRow ==
    /\ pc = "csv_loop"
    /\ pos < Len(stream)
    /\ ~IsBlank(stream[pos + 1])
    /\ header # NoHeader
    /\ LET line == stream[pos + 1]
           rowText == RowTextForTokens(opts, line)
       IN /\ pos' = pos + 1
          /\ nCounts' = nCounts + 1
          /\ countLog' = Append(countLog,
                            LogEntry("row", cachedEncode, tiktokenOk, opts, rowText))
          /\ cachedEncode' = CacheAfter(cachedEncode, tiktokenOk, opts)
          /\ cachedFree' = (CacheAfter(cachedEncode, tiktokenOk, opts) # "null")
          /\ encoders' = EncodersAfter(encoders, cachedEncode, tiktokenOk, opts)
          /\ IF CountThrows(cachedEncode, tiktokenOk, opts, rowText)
             THEN /\ error' = "TokenizationFailure"
                  /\ pc' = "failed"
                  /\ UNCHANGED <<ioLog, currentTokens, part, currentLines,
                                 partPaths, files>>
             ELSE /\ SetLocals(PlaceRow(header, Locals, line,
                         CountTokens(cachedEncode, tiktokenOk, opts, rowText),
                         opts.maxTokens))
                  /\ UNCHANGED <<pc, error>>
    /\ UNCHANGED <<scopeVars, cliVars, envVars, textVars, header>>

\* The stream has ended: the last flushPart(), then the return.
CsvEnd ==
    /\ pc = "csv_loop"
    /\ pos = Len(stream)
    /\ LET st == FlushPart(header, Locals)
       IN IF st.threw
          THEN /\ error' = "MissingHeader"
               /\ pc' = "failed"
               /\ UNCHANGED <<ioLog, currentTokens, part, currentLines,
                              partPaths, files>>
          ELSE /\ SetLocals(st)
               /\ pc' = "done"
               /\ UNCHANGED error
    /\ UNCHANGED <<tokVars, scopeVars, cliVars, envVars, nCounts, countLog, textVars, header, pos>>

-----------------------------------------------------------------------------
(* The calls of splitCsvByTokens that are explored                          *)

\* Longest stream, in lines.
MaxLines == 4

BLANK_LINE == <<SP>>
AB_LINE == <<"a", COMMA, "b">>
QUOTED_LINE == <<QUOTE, "a", COMMA, "b", QUOTE, COMMA, "c">>
LONG_LINE == Rep("a", 12) \o <<COMMA, "b">>
SPECIAL_LINE == <<"a", SPECIAL>>
TEN_LINE == Rep("a", 8) \o <<COMMA, "b">>

LinePool == {BLANK_LINE, AB_LINE, QUOTED_LINE, LONG_LINE, SPECIAL_LINE}

Streams == UNION {[1..n -> LinePool] : n \in 0..MaxLines}

\* The token counters: forced approximation, the default encoding, the
\* encoding of a model hint, and the fallback when tiktoken cannot be loaded.
ApproxCounter == [approximate |-> TRUE, model |-> "none", ok |-> TRUE]
DenseCounter == [approximate |-> FALSE, model |-> "none", ok |-> TRUE]
HintCounter == [approximate |-> FALSE, model |-> "gpt-4o", ok |-> TRUE]
FallbackCounter == [approximate |-> FALSE, model |-> "unknown", ok |-> FALSE]

Counters == {ApproxCounter, DenseCounter, HintCounter, FallbackCounter}

CsvOpts(c, maxTokens, tokenMode, noMultiline) ==
    [maxTokens |-> maxTokens, model |-> c.model, approximate |-> c.approximate,
     tokenMode |-> tokenMode, assumeNoMultilineFields |-> noMultiline]

\* Calls that pass the checks, and calls that some check rejects.
CsvCalls ==
    { [c |-> c, o |-> CsvOpts(c, 4, m, TRUE), exists |-> TRUE] :
        c \in Counters, m \in {"line", "cells"} }
    \cup
    { [c |-> ApproxCounter, o |-> CsvOpts(ApproxCounter, 4, "undefined", TRUE),
       exists |-> TRUE] }
    \cup
    { [c |-> ApproxCounter, o |-> CsvOpts(ApproxCounter, n, "line", nm), exists |-> e] :
        n \in {0, 4}, nm \in BOOLEAN, e \in BOOLEAN }

\* Header "a,b" and five rows of 10 tokens each, maxTokens = 25.
ScenarioStream == <<AB_LINE, TEN_LINE, TEN_LINE, TEN_LINE, TEN_LINE, TEN_LINE>>
ScenarioCall == [c |-> DenseCounter, o |-> CsvOpts(DenseCounter, 25, "line", TRUE),
                 exists |-> TRUE]

\* No withTokenizer scope is open: the library functions are called directly.
NoOutcome == [kind |-> "pending", value |-> "none"]

ScopeIdle ==
    /\ scope = "none"
    /\ fnOutcome = NoOutcome
    /\ delivered = NoOutcome
    /\ tasks = <<>>

\* No command line: the library functions are called directly.
NoArgv == [out |-> <<>>, tokenMode |-> "undefined", approx |-> FALSE, max |-> 0]

CliIdle ==
    /\ argv = NoArgv
    /\ clock = 0
    /\ run = 0
    /\ outDir = <<>>
    /\ runDirs = <<>>
    /\ disk = <<>>

TokenizerFresh ==
    /\ cachedEncode = "null"
    /\ cachedFree = FALSE
    /\ encoders = <<>>
    /\ nCounts = 0
    /\ countLog = <<>>

TextIdle ==
    /\ text = <<>>
    /\ units = <<>>
    /\ idx = 0
    /\ chunks = <<>>
    /\ tokenCounts = <<>>
    /\ current = <<>>
    /\ remaining = <<>>
    /\ slice = <<>>
    /\ origin = <<>>

CsvIdle ==
    /\ inputExists = FALSE
    /\ stream = <<>>
    /\ header = NoHeader
    /\ part = 0
    /\ currentLines = <<>>
    /\ partPaths = <<>>
    /\ pos = 0
    /\ files = <<>>

InitCsv ==
    /\ TokenizerFresh
    /\ ScopeIdle
    /\ CliIdle
    /\ \E call \in CsvCalls \cup {ScenarioCall} :
          /\ opts = call.o
          /\ tiktokenOk = call.c.ok
          /\ inputExists = call.exists
          /\ IF call = ScenarioCall THEN stream = ScenarioStream
             ELSE stream \in Streams
    /\ pc = "csv_start"
    /\ error = "none"
    /\ ioLog = {}
    /\ currentTokens = 0
    /\ header = NoHeader
    /\ part = 0
    /\ currentLines = <<>>
    /\ partPaths = <<>>
    /\ pos = 0
    /\ files = <<>>
    /\ TextIdle

NextCsv == CsvStart \/ CsvSkipBlank \/ CsvHeader \/ CsvRow \/ CsvEnd

SpecCsv == InitCsv /\ [][NextCsv]_vars

-----------------------------------------------------------------------------
(* What is read off the output directory and the stream, for the properties *)

\* The lines of a part file: its content split at the line terminators,
\* without the empty piece after the last terminator.
FileLines(p) ==
    LET pieces == SplitOn(files[p], NL) IN SubSeq(pieces, 1, Len(pieces) - 1)

FileRows(p) == Tail(FileLines(p))

EndsWithNewline(p) == Len(files[p]) > 0 /\ files[p][Len(files[p])] = NL

NonBlank(ls) == SelectSeq(ls, LAMBDA l : ~IsBlank(l))

\* The data rows among the first n lines of the stream: the non-blank lines
\* after the first non-blank one.
DataRows(n) ==
    LET nb == NonBlank(SubSeq(stream, 1, n)) IN IF nb = <<>> THEN <<>> ELSE Tail(nb)

\* The count of a row under the options of the call.
RowTokens(line) ==
    CountTokens(cachedEncode, tiktokenOk, opts, RowTextForTokens(opts, line))

RowFails(line) ==
    /\ CounterFor(cachedEncode, tiktokenOk, opts) # "approx"
    /\ EncodeThrows(RowTextForTokens(opts, line))

PartTotal(p) == SumSeq([i \in 1..Len(FileRows(p)) |-> RowTokens(FileRows(p)[i])])

\* The rows of all parts written so far, in part order.
WrittenRows == Concat([k \in 1..Len(partPaths) |-> FileRows(partPaths[k])])

Range(f) == {f[i] : i \in DOMAIN f}

-----------------------------------------------------------------------------
(* splitCsvByTokens: the properties                                         *)

\* C2: every part written has a row-token total <= maxTokens, or holds exactly
\* one row whose own count exceeds maxTokens; and every row of a part is a
\* whole line of the stream (a row is never split across parts).
CsvPartsWithinBudget ==
    \A p \in DOMAIN files :
        /\ \/ PartTotal(p) <= opts.maxTokens
           \/ /\ Len(FileRows(p)) = 1
              /\ RowTokens(FileRows(p)[1]) > opts.maxTokens
        /\ \A i \in 1..Len(FileRows(p)) : FileRows(p)[i] \in Range(stream)

\* C2 witness: a finished run that wrote a part of several rows within budget
\* and a part of one over-budget row.
CsvBothKindsOfPart ==
    /\ pc = "done"
    /\ \E p \in DOMAIN files : Len(FileRows(p)) >= 2
    /\ \E p \in DOMAIN files :
          Len(FileRows(p)) = 1 /\ RowTokens(FileRows(p)[1]) > opts.maxTokens

\* C3: every part is the header line (the first non-blank line of the stream)
\* followed by rows, each line terminated; the rows of all parts in part order,
\* followed by the rows of the open part, are exactly the data rows read so
\* far (all of them, once the call has returned), verbatim and in order.
CsvHeaderAndRowsPreserved ==
    /\ \A p \in DOMAIN files :
          /\ EndsWithNewline(p)
          /\ Len(FileLines(p)) >= 1
          /\ FileLines(p)[1] = NonBlank(stream)[1]
          /\ FileLines(p)[1] = header
    /\ pc = "csv_loop" => WrittenRows \o currentLines = DataRows(pos)
    /\ pc = "done" => WrittenRows = DataRows(Len(stream))

\* C3 witness: a finished run in 'cells' mode over a stream with a blank line
\* and a quoted row, which wrote at least two parts.
CsvCellsModeSeveralParts ==
    /\ pc = "done"
    /\ TokenMode(opts) = "cells"
    /\ Len(partPaths) >= 2
    /\ BLANK_LINE \in Range(stream)
    /\ QUOTED_LINE \in Range(DataRows(Len(stream)))

\* C5: packing is greedy: the total of a part plus the count of the first row
\* of the next part exceeds maxTokens; and five rows of 10 tokens with
\* maxTokens = 25 give three parts of 2, 2 and 1 rows.
CsvGreedy ==
    /\ \A k \in 1..(Len(partPaths) - 1) :
          PartTotal(partPaths[k]) + RowTokens(FileRows(partPaths[k + 1])[1])
              > opts.maxTokens
    /\ (pc = "done" /\ stream = ScenarioStream /\ opts = ScenarioCall.o
            /\ tiktokenOk)
        => /\ \A i \in 1..5 : RowTokens(DataRows(Len(stream))[i]) = 10
           /\ [k \in 1..Len(partPaths) |-> Len(FileRows(partPaths[k]))] = <<2, 2, 1>>

\* C5 witness: the scenario has run to its end and left three parts.
CsvScenarioDone ==
    /\ pc = "done"
    /\ stream = ScenarioStream
    /\ opts.maxTokens = 25
    /\ part = 3

\* C6 (as claimed): with maxTokens <= 0 the call fails with the configuration
\* error and has done no I/O and no count by then.
CsvBadBudgetFailsFirst ==
    (opts.maxTokens <= 0 /\ pc # "csv_start")
        => /\ error = "ConfigurationError"
           /\ ioLog = {}
           /\ nCounts = 0

\* C7: the missing-header error is raised exactly when the stream was read to
\* its end without a non-blank line; then no part has been written; a stream
\* with a header never raises it, with or without data rows.
CsvMissingHeaderExactly ==
    /\ error = "MissingHeader"
          <=> /\ pc = "failed"
              /\ "createReadStream" \in ioLog
              /\ pos = Len(stream)
              /\ NonBlank(stream) = <<>>
    /\ error = "MissingHeader"
          => files = <<>> /\ part = 0 /\ partPaths = <<>> /\ "writeFileSync" \notin ioLog
    /\ (pc \in {"done", "failed"} /\ "createReadStream" \in ioLog
            /\ NonBlank(stream) = <<>>)
          => error = "MissingHeader"
    /\ (pc = "done" /\ Len(NonBlank(stream)) = 1)
          => error = "none" /\ files = <<>>

\* C7 witness: a stream of blank lines only has been read to its end.
CsvBlankStreamFailed ==
    /\ error = "MissingHeader"
    /\ Len(stream) >= 2

\* The index in the stream of the first data row whose count call fails,
\* 0 if there is none.
FirstFailingRow ==
    LET I == {i \in 1..Len(stream) :
                 /\ ~IsBlank(stream[i])
                 /\ NonBlank(SubSeq(stream, 1, i - 1)) # <<>>
                 /\ RowFails(stream[i])}
    IN IF I = {} THEN 0 ELSE CHOOSE i \in I : \A j \in I : i <= j

\* C8, the state reached: once the row whose count fails has been read the call
\* has failed with the counter's error; that row is the last line read and the
\* last count issued; the parts on disk and the open part's rows are the data
\* rows before it, so that the open part's rows are in no file.
CsvCountFailureState ==
    /\ (pc = "csv_loop" /\ FirstFailingRow # 0) => pos < FirstFailingRow
    /\ (pc = "done") => FirstFailingRow = 0
    /\ error = "TokenizationFailure"
          => /\ pc = "failed"
             /\ pos = FirstFailingRow
             /\ nCounts = Len(DataRows(pos))
             /\ WrittenRows \o currentLines = DataRows(pos - 1)
             /\ Cardinality(DOMAIN files) = part

\* C8, the failing step: it writes nothing, leaves the open part and every
\* file as they were; and a failed call takes no further step.
CsvCountFailureStep ==
    /\ (error = "none" /\ error' = "TokenizationFailure")
          => /\ files' = files
             /\ part' = part /\ partPaths' = partPaths
             /\ currentLines' = currentLines /\ currentTokens' = currentTokens
             /\ ioLog' = ioLog
             /\ pos' = pos + 1 /\ nCounts' = nCounts + 1
    /\ \A p \in DOMAIN files : p \in DOMAIN files' /\ files'[p] = files[p]
    /\ pc = "failed" => (pos' = pos /\ nCounts' = nCounts /\ files' = files)

\* C8: a failing count call aborts the run at once, salvages nothing and
\* leaves the parts already written untouched.
CsvCountFailureAborts == []CsvCountFailureState /\ [][CsvCountFailureStep]_vars

\* C8 witness: the count failed with a part on disk and rows in the open part.
CsvFailedWithOpenPart ==
    /\ error = "TokenizationFailure"
    /\ files # <<>>
    /\ currentLines # <<>>

\* C9 (as claimed): a call that passes the other checks and asks for multiline
\* fields is rejected with nothing read, counted, created or written.
CsvMultilineRejectedFirst ==
    (inputExists /\ opts.maxTokens > 0 /\ ~opts.assumeNoMultilineFields
        /\ pc # "csv_start")
        => /\ error = "UnsupportedModeError"
           /\ pos = 0 /\ nCounts = 0
           /\ ioLog \cap {"mkdirSync", "createReadStream", "writeFileSync"} = {}

\* A number below 1000 as three decimal digits.
ThreeDigits(k) ==
    LET d == <<"0", "1", "2", "3", "4", "5", "6", "7", "8", "9">>
    IN <<d[(k \div 100) + 1], d[((k \div 10) % 10) + 1], d[(k % 10) + 1]>>

\* C10: the k-th part written carries index k as three zero-padded digits;
\* part, partPaths and the files on disk agree in number; no file is without
\* a row (a flush with nothing open writes nothing and takes no index).
CsvPartIndexSequential ==
    /\ \A k \in 1..Len(partPaths) :
          /\ partPaths[k] \in DOMAIN files
          /\ SubSeq(partPaths[k], 1, 7) = <<"i", "n", "_", "p", "a", "r", "t">>
          /\ SubSeq(partPaths[k], 8, Len(partPaths[k]) - 4) = ThreeDigits(k)
    /\ part = Len(partPaths)
    /\ Cardinality(DOMAIN files) = part
    /\ Cardinality(Range(partPaths)) = part
    /\ \A p \in DOMAIN files : Len(FileRows(p)) >= 1
    /\ ("writeFileSync" \in ioLog) <=> part > 0

\* C10 witness: a finished run of at least two parts whose last data row was
\* over budget, so that the flush before it or the last flush found no row.
CsvEmptyFlushHappened ==
    /\ pc = "done"
    /\ part >= 2
    /\ currentLines = <<>>
    /\ LET rows == DataRows(Len(stream))
       IN RowTokens(rows[Len(rows)]) > opts.maxTokens

-----------------------------------------------------------------------------
(* src/splitText.ts: the segmenters                                         *)

\* text.replace(/\r\n/g, "\n"): a carriage return right before a newline goes.
ReplaceCrLf(s) ==
    LET kept == SelectSeq([i \in 1..Len(s) |-> i],
                    LAMBDA i : ~(s[i] = CR /\ i < Len(s) /\ s[i + 1] = NL))
    IN [j \in 1..Len(kept) |-> s[kept[j]]]

RECURSIVE RunEnd(_, _, _)
\* The last index of the run of characters of class S that holds index i.
RunEnd(s, i, S) ==
    IF i + 1 <= Len(s) /\ s[i + 1] \in S THEN RunEnd(s, i + 1, S) ELSE i

RECURSIVE PiecesBetween(_, _, _, _)
\* The pieces of s from index `from` on, between the separators: each is a
\* run of characters of class S that starts at an index of `starts`.
PiecesBetween(s, from, starts, S) ==
    LET I == {i \in starts : i >= from}
    IN IF I = {} THEN <<SubSeq(s, from, Len(s))>>
       ELSE LET k == CHOOSE i \in I : \A j \in I : i <= j
            IN <<SubSeq(s, from, k - 1)>>
                  \o PiecesBetween(s, RunEnd(s, k, S) + 1, starts, S)

\* cleaned.split(/\n{2,}/g): a separator is a whole run of two or more newlines
ParagraphPieces(s) ==
    PiecesBetween(s, 1,
        {i \in 1..Len(s) : /\ s[i] = NL
                           /\ (i = 1 \/ s[i - 1] # NL)
                           /\ i < Len(s) /\ s[i + 1] = NL},
        {NL})

\* cleaned.split(/(?<=[.!?])\s+(?=[A-Z0-9"“‘(\[])/g): a separator is a whole
\* run of white space that follows . ! or ? and is followed by a sentence start
SentencePieces(s) ==
    PiecesBetween(s, 1,
        {i \in 2..Len(s) : /\ s[i - 1] \in SentenceEnd
                           /\ s[i] \in WhiteSpace
                           /\ RunEnd(s, i, WhiteSpace) < Len(s)
                           /\ s[RunEnd(s, i, WhiteSpace) + 1] \in SentenceStart},
        WhiteSpace)

\* A segmenter without the fallback: no part, no unit.
PartsOrWholeNoFallback(pieces, t) == SelectSeq(pieces, LAMBDA x : Len(x) > 0)

\* .map(f).filter(nonEmpty), then the fallback `parts.length ? parts : [text.trim()]`
PartsOrWhole(pieces, t) ==
    LET parts == SelectSeq(pieces, LAMBDA x : Len(x) > 0)
    IN IF Len(parts) > 0 THEN parts ELSE <<Trim(t)>>

splitIntoSentences(t) ==
    LET pieces == SentencePieces(ReplaceCrLf(t))
    IN PartsOrWhole([i \in 1..Len(pieces) |-> Trim(pieces[i])], t)

splitIntoParagraphs(t) ==
    LET pieces == ParagraphPieces(ReplaceCrLf(t))
    IN PartsOrWhole([i \in 1..Len(pieces) |-> Trim(pieces[i])], t)

splitIntoLines(t) ==
    LET pieces == SplitOn(ReplaceCrLf(t), NL)
    IN PartsOrWhole([i \in 1..Len(pieces) |-> TrimEnd(pieces[i])], t)

\* mode = "paragraph" when the option is left out.
Mode(o) == IF o.mode = "undefined" THEN "paragraph" ELSE o.mode

Segment(o, t) ==
    IF Mode(o) = "sentence" THEN splitIntoSentences(t)
    ELSE IF Mode(o) = "line" THEN splitIntoLines(t)
    ELSE splitIntoParagraphs(t)

\* mode === "line" ? "\n" : "\n\n"
Separator(o) == IF Mode(o) = "line" THEN <<NL>> ELSE <<NL, NL>>

-----------------------------------------------------------------------------
(* src/splitText.ts: splitTextIntoTokenChunks                               *)

\* The floor of the character window of the hard split.
MinSliceChars == 50

\* `maxTokens * 4`: the characters guessed per token.
CharsPerToken == 4

\* `slice.length * 0.85`, in hundredths.
ShrinkPercent == 85

\* Math.max(50, maxTokens * 4)
GuessChars(maxTokens) == Max(MinSliceChars, maxTokens * CharsPerToken)

\* A shrink step that leaves the window as long as it was.
ShrinkKeepsLength(sl) == sl

\* slice.slice(0, Math.floor(slice.length * 0.85))
Shrink(sl) == SliceTo(sl, (Len(sl) * ShrinkPercent) \div 100)

\* A loop that shrinks any window that is over budget, however short.
MustShrinkWithoutFloor(sliceTokens, sl, maxTokens) == sliceTokens > maxTokens

\* The condition of the inner while: the slice is over budget and may shrink.
MustShrink(sliceTokens, sl, maxTokens) ==
    sliceTokens > maxTokens /\ Len(sl) > MinSliceChars

\* A cursor that skips one character more than the slice held.
AdvancePastSkipsOne(rem, sl) == TrimStart(SliceFrom(rem, Len(sl) + 1))

\* remaining.slice(slice.length).trimStart()
AdvancePast(rem, sl) == TrimStart(SliceFrom(rem, Len(sl)))

\* A test that sends every unit to the hard split.
UnitTooBigAlways(unitTokens, maxTokens) == TRUE

\* `unitTokens > maxTokens`
UnitTooBig(unitTokens, maxTokens) == unitTokens > maxTokens

\* `currentTokens + unitTokens > maxTokens`
UnitOverflows(cur, unitTokens, maxTokens) == cur + unitTokens > maxTokens

\* The locals a flush of the open chunk touches.
ChunkLocals == [chunks |-> chunks, tokenCounts |-> tokenCounts,
                current |-> current, currentTokens |-> currentTokens,
                origin |-> origin]

\* `if (current.length) { chunks.push(current.join(sep)); tokenCounts.push(currentTokens) }`
\* The history records which units the chunk holds: the last Len(current)
\* units before unit number `next`.
PushCurrent(st, sep, next) ==
    IF Len(st.current) = 0 THEN st
    ELSE [st EXCEPT
            !.chunks = Append(st.chunks, Join(st.current, sep)),
            !.tokenCounts = Append(st.tokenCounts, st.currentTokens),
            !.origin = Append(st.origin,
                [frag |-> FALSE,
                 ids |-> [j \in 1..Len(st.current) |-> next - Len(st.current) + j - 1]])]

SetChunkLocals(st) ==
    /\ chunks' = st.chunks
    /\ tokenCounts' = st.tokenCounts
    /\ current' = st.current
    /\ currentTokens' = st.currentTokens
    /\ origin' = st.origin

\* A unit loop that adds a unit to the open chunk without adding its count.
PackUnitDropsCount(st, unit, k, unitTokens, sep, maxTokens) ==
    IF UnitOverflows(st.currentTokens, unitTokens, maxTokens)
    THEN [PushCurrent(st, sep, k) EXCEPT !.current = <<unit>>,
                                         !.currentTokens = unitTokens]
    ELSE [st EXCEPT !.current = Append(st.current, unit)]

\* The body of the unit loop for unit number k, counted at unitTokens, when it
\* is not over budget.
PackUnit(st, unit, k, unitTokens, sep, maxTokens) ==
    IF UnitOverflows(st.currentTokens, unitTokens, maxTokens)
    THEN [PushCurrent(st, sep, k) EXCEPT !.current = <<unit>>,
                                         !.currentTokens = unitTokens]
    ELSE [st EXCEPT !.current = Append(st.current, unit),
                    !.currentTokens = st.currentTokens + unitTokens]

\* The flush before a hard split, which also resets the open chunk.
FlushForHardSplit(st, sep, k) ==
    [PushCurrent(st, sep, k) EXCEPT !.current = <<>>, !.currentTokens = 0]

\* A count call on s, issued for a unit, a window or a fragment: the history
\* and the counter's cache after it.
Counted(kind, s) ==
    /\ nCounts' = nCounts + 1
    /\ countLog' = Append(countLog, LogEntry(kind, cachedEncode, tiktokenOk, opts, s))
    /\ cachedEncode' = CacheAfter(cachedEncode, tiktokenOk, opts)
    /\ cachedFree' = (CacheAfter(cachedEncode, tiktokenOk, opts) # "null")
    /\ encoders' = EncodersAfter(encoders, cachedEncode, tiktokenOk, opts)

\* The call fails with the counter's error.
CountFailed ==
    /\ error' = "TokenizationFailure"
    /\ pc' = "failed"

\* The check of maxTokens, then the segmentation.
TextStart ==
    /\ pc = "text_start"
    /\ IF opts.maxTokens <= 0
       THEN /\ error' = "ConfigurationError"
            /\ pc' = "failed"
            /\ UNCHANGED units
       ELSE /\ units' = Segment(opts, text)
            /\ pc' = "text_loop"
            /\ UNCHANGED error
    /\ UNCHANGED <<tokVars, scopeVars, cliVars, envVars, nCounts, countLog, ioLog, currentTokens, csvVars,
                   idx, chunks, tokenCounts, current, remaining, slice, origin>>

\* One turn of `for (const unit of units)`, up to the hard-split loop.
TextUnit ==
    /\ pc = "text_loop"
    /\ idx < Len(units)
    /\ LET unit == units[idx + 1]
           unitTokens == CountTokens(cachedEncode, tiktokenOk, opts, unit)
       IN /\ Counted("unit", unit)
          /\ idx' = idx + 1
          /\ IF CountThrows(cachedEncode, tiktokenOk, opts, unit)
             THEN /\ CountFailed
                  /\ UNCHANGED <<chunks, tokenCounts, current, currentTokens,
                                 origin, remaining>>
             ELSE IF UnitTooBig(unitTokens, opts.maxTokens)
             THEN /\ SetChunkLocals(FlushForHardSplit(ChunkLocals, Separator(opts), idx + 1))
                  /\ remaining' = unit
                  /\ pc' = IF Len(unit) > 0 THEN "hard_split" ELSE "text_loop"
                  /\ UNCHANGED error
             ELSE /\ SetChunkLocals(PackUnit(ChunkLocals, unit, idx + 1, unitTokens,
                                             Separator(opts), opts.maxTokens))
                  /\ UNCHANGED <<pc, error, remaining>>
    /\ UNCHANGED <<scopeVars, cliVars, envVars, ioLog, csvVars, units, slice>>

\* One turn of `while (remaining.length > 0)`: the first guess of the slice.
HardSlice ==
    /\ pc = "hard_split"
    /\ slice' = SliceTo(remaining, GuessChars(opts.maxTokens))
    /\ pc' = "shrink"
    /\ UNCHANGED <<tokVars, scopeVars, cliVars, envVars, error, nCounts, countLog, ioLog, currentTokens, csvVars,
                   units, idx, chunks, tokenCounts, current, remaining, origin>>

\* One evaluation of the condition of the inner while, and its body.
ShrinkStep ==
    /\ pc = "shrink"
    /\ Counted("window", slice)
    /\ IF CountThrows(cachedEncode, tiktokenOk, opts, slice)
       THEN CountFailed /\ UNCHANGED slice
       ELSE /\ UNCHANGED error
            /\ IF MustShrink(CountTokens(cachedEncode, tiktokenOk, opts, slice),
                             slice, opts.maxTokens)
               THEN slice' = Shrink(slice) /\ UNCHANGED pc
               ELSE pc' = "emit" /\ UNCHANGED slice
    /\ UNCHANGED <<scopeVars, cliVars, envVars, ioLog, currentTokens, csvVars,
                   units, idx, chunks, tokenCounts, current, remaining, origin>>

\* The recount of the slice, its emission as a chunk, the cursor's advance.
HardEmit ==
    /\ pc = "emit"
    /\ Counted("fragment", slice)
    /\ IF CountThrows(cachedEncode, tiktokenOk, opts, slice)
       THEN CountFailed /\ UNCHANGED <<chunks, tokenCounts, origin, remaining>>
       ELSE /\ chunks' = Append(chunks, slice)
            /\ tokenCounts' = Append(tokenCounts,
                                 CountTokens(cachedEncode, tiktokenOk, opts, slice))
            /\ origin' = Append(origin, [frag |-> TRUE, ids |-> <<idx>>])
            /\ remaining' = AdvancePast(remaining, slice)
            /\ pc' = IF Len(AdvancePast(remaining, slice)) > 0
                     THEN "hard_split" ELSE "text_loop"
            /\ UNCHANGED error
    /\ UNCHANGED <<scopeVars, cliVars, envVars, ioLog, currentTokens, csvVars,
                   units, idx, current, slice>>

\* The units are used up: the last flush and the return.
TextEnd ==
    /\ pc = "text_loop"
    /\ idx = Len(units)
    /\ LET st == PushCurrent(ChunkLocals, Separator(opts), idx + 1)
       IN /\ chunks' = st.chunks
          /\ tokenCounts' = st.tokenCounts
          /\ origin' = st.origin
    /\ pc' = "done"
    /\ UNCHANGED <<tokVars, scopeVars, cliVars, envVars, error, nCounts, countLog, ioLog, currentTokens, csvVars,
                   units, idx, current, remaining, slice>>

-----------------------------------------------------------------------------
(* The calls of splitTextIntoTokenChunks that are explored                  *)

\* Longest text, in pieces of the pool.
MaxPieces == 3

SENTENCE == <<"A", "a", ".">>

\* 60 characters, dense in punctuation, with a blank at position 51.
LONG_UNIT == Concat([i \in 1..25 |-> <<"a", ".">>]) \o <<SP>> \o Rep("a", 9)

PiecePool ==
    { SENTENCE \o <<SP>>,
      SENTENCE \o <<CR, NL>>,
      SENTENCE \o <<NL, NL>>,
      LONG_UNIT \o <<NL, NL>>,
      <<"a", SPECIAL, NL>> }

Texts == {Concat(ps) : ps \in UNION {[1..n -> PiecePool] : n \in 0..MaxPieces}}

\* Longest text of white space alone.
MaxBlank == 3

\* The empty text and the texts of white space alone.
BlankTexts == UNION {[1..n -> WhiteSpace] : n \in 0..MaxBlank}

TextOpts(c, maxTokens, mode) ==
    [maxTokens |-> maxTokens, model |-> c.model, approximate |-> c.approximate,
     mode |-> mode]

TextModes == {"undefined", "sentence", "line"}

TextCalls ==
    { [c |-> ApproxCounter, o |-> TextOpts(ApproxCounter, n, m)] :
        n \in {4, 16}, m \in TextModes }
    \cup
    { [c |-> DenseCounter, o |-> TextOpts(DenseCounter, 16, m)] : m \in TextModes }
    \cup
    { [c |-> HintCounter, o |-> TextOpts(HintCounter, 1, m)] : m \in TextModes }
    \cup
    { [c |-> FallbackCounter, o |-> TextOpts(FallbackCounter, 4, "paragraph")],
      [c |-> ApproxCounter, o |-> TextOpts(ApproxCounter, 0, "paragraph")] }

\* 60 letters: 15 tokens by the approximation, 13 for its first 52 characters.
PLAIN_UNIT == Rep("a", 60)

\* Two units over a budget of 13 tokens, whose first window is 52 characters.
FloorScenarioText == LONG_UNIT \o <<NL, NL>> \o PLAIN_UNIT
FloorScenarioCall == [c |-> ApproxCounter, o |-> TextOpts(ApproxCounter, 13, "paragraph")]

InitText ==
    /\ TokenizerFresh
    /\ ScopeIdle
    /\ CliIdle
    /\ \E call \in TextCalls \cup {FloorScenarioCall} :
          /\ opts = call.o
          /\ tiktokenOk = call.c.ok
          /\ IF call = FloorScenarioCall THEN text = FloorScenarioText
             ELSE text \in Texts \cup BlankTexts
    /\ pc = "text_start"
    /\ error = "none"
    /\ ioLog = {}
    /\ currentTokens = 0
    /\ units = <<>>
    /\ idx = 0
    /\ chunks = <<>>
    /\ tokenCounts = <<>>
    /\ current = <<>>
    /\ remaining = <<>>
    /\ slice = <<>>
    /\ origin = <<>>
    /\ CsvIdle

NextText == TextStart \/ TextUnit \/ HardSlice \/ ShrinkStep \/ HardEmit \/ TextEnd

SpecText == InitText /\ [][NextText]_vars

-----------------------------------------------------------------------------
(* splitTextIntoTokenChunks: the properties                                 *)

\* The count of a unit under the options of the call.
UnitTokens(u) == CountTokens(cachedEncode, tiktokenOk, opts, u)

\* The chunks that are fragments of the hard split of unit k, in order.
FragmentsOf(k) ==
    LET I == SelectSeq([i \in 1..Len(chunks) |-> i],
                 LAMBDA i : origin[i].frag /\ origin[i].ids = <<k>>)
    IN [j \in 1..Len(I) |-> chunks[I[j]]]

HardSplitUnits == {origin[i].ids[1] : i \in {j \in 1..Len(origin) : origin[j].frag}}

\* The units the chunks were made from, in emission order, a hard-split unit
\* named once for the run of its fragments.
EmittedUnitIds ==
    Concat([i \in 1..Len(origin) |->
        IF origin[i].frag /\ i > 1 /\ origin[i - 1].frag
              /\ origin[i - 1].ids = origin[i].ids
        THEN <<>> ELSE origin[i].ids])

\* A packed chunk is its units joined by the separator of the mode.
PackedChunksAreJoins ==
    \A i \in 1..Len(chunks) :
        ~origin[i].frag =>
            chunks[i] = Join([j \in 1..Len(origin[i].ids) |-> units[origin[i].ids[j]]],
                             Separator(opts))

IsPrefix(a, b) == Len(a) <= Len(b) /\ SubSeq(b, 1, Len(a)) = a

RECURSIVE FragmentsWithGaps(_, _)
\* u is the fragments in order, each followed by a run of white space
\* (possibly empty) and nothing else.
FragmentsWithGaps(u, frags) ==
    IF frags = <<>> THEN u = <<>>
    ELSE /\ Len(frags[1]) > 0
         /\ IsPrefix(frags[1], u)
         /\ FragmentsWithGaps(TrimStart(SliceFrom(u, Len(frags[1]))), Tail(frags))

\* C1 (as claimed): every chunk has a recorded total <= maxTokens, or is
\* exactly one whole unit whose own count exceeds maxTokens.
TextChunksWithinBudget ==
    \A i \in 1..Len(chunks) :
        \/ tokenCounts[i] <= opts.maxTokens
        \/ /\ Len(origin[i].ids) = 1
           /\ chunks[i] = units[origin[i].ids[1]]
           /\ UnitTokens(units[origin[i].ids[1]]) > opts.maxTokens

\* What C4 says of units, whole: on return every unit has been emitted once,
\* in order, and the packed chunks hold their units verbatim.
TextUnitsInOrder ==
    /\ EmittedUnitIds = [k \in 1..Len(units) |-> k]
    /\ PackedChunksAreJoins

\* C4 (as claimed): on return the units of the chunks, the fragments of a
\* hard-split unit taken together, are the segmenter's units exactly.
TextUnitsReproducedExactly ==
    pc = "done" =>
        /\ TextUnitsInOrder
        /\ \A k \in HardSplitUnits : Concat(FragmentsOf(k)) = units[k]

\* C4 (amended): the same, except that a hard-split unit is its fragments in
\* order with the white space after each fragment's end left out; the call's
\* units are the segmenter's.
TextUnitsReproducedUpToGaps ==
    /\ pc \notin {"text_start", "failed"} => units = Segment(opts, text)
    /\ pc = "done" =>
          /\ TextUnitsInOrder
          /\ \A k \in HardSplitUnits : FragmentsWithGaps(units[k], FragmentsOf(k))

\* C4 witness: a finished call that packed two units into one chunk and
\* hard-split another unit into fragments that lost white space between them.
TextPackedAndHardSplit ==
    /\ pc = "done"
    /\ \E i \in 1..Len(chunks) : ~origin[i].frag /\ Len(origin[i].ids) >= 2
    /\ \E k \in HardSplitUnits :
          /\ Len(FragmentsOf(k)) >= 2
          /\ Concat(FragmentsOf(k)) # units[k]

-----------------------------------------------------------------------------
(* splitTextIntoTokenChunks: termination of the hard split                  *)

InHardSplit == pc \in {"hard_split", "shrink", "emit"}

\* The units counted so far whose count exceeds maxTokens.
OversizedUnits ==
    {k \in 1..idx : ~CountThrows(cachedEncode, tiktokenOk, opts, units[k])
                    /\ UnitTokens(units[k]) > opts.maxTokens}

\* What each step of the hard split does to the window and to the remainder:
\* the first guess of a window is not empty; a shrink step leaves a shorter,
\* non-empty window; an emission appends the window, which is not empty, and
\* leaves a strictly shorter remainder.
HardSplitProgress ==
    /\ (pc = "hard_split" /\ pc' = "shrink")
          => Len(remaining) > 0 /\ Len(slice') > 0 /\ IsPrefix(slice', remaining)
    /\ (pc = "shrink" /\ pc' = "shrink")
          => Len(slice') < Len(slice) /\ Len(slice') > 0 /\ remaining' = remaining
    /\ (pc = "shrink" /\ pc' = "emit") => slice' = slice /\ remaining' = remaining
    /\ (pc = "emit" /\ pc' \in {"hard_split", "text_loop"})
          => /\ chunks' = Append(chunks, slice)
             /\ Len(slice) > 0
             /\ Len(remaining') < Len(remaining)
             /\ (pc' = "text_loop") <=> (remaining' = <<>>)

\* On return every oversized unit stands in the chunks as one or more
\* fragments, none of them empty, and no other unit was hard-split.
OversizedUnitsReplaced ==
    pc \in {"text_loop", "done"} =>
        /\ HardSplitUnits = OversizedUnits
        /\ \A k \in OversizedUnits :
              /\ Len(FragmentsOf(k)) >= 1
              /\ \A j \in 1..Len(FragmentsOf(k)) : Len(FragmentsOf(k)[j]) > 0

\* The measure of the hard split: the length of the remainder, then the step
\* within one outer turn, then the length of the window while it shrinks.
HardSplitRank(p, rem, sl) ==
    <<Len(rem),
      IF p = "hard_split" THEN 3 ELSE IF p = "shrink" THEN 2 ELSE 1,
      IF p = "shrink" THEN Len(sl) ELSE 0>>

\* The lexicographic order on such triples of naturals, which is well-founded.
RankLess(a, b) ==
    \/ a[1] < b[1]
    \/ a[1] = b[1] /\ a[2] < b[2]
    \/ a[1] = b[1] /\ a[2] = b[2] /\ a[3] < b[3]

\* Every step that stays in the hard split lowers the measure, so that only
\* finitely many of them follow one another; and a step is always at hand
\* there, since each of the three steps is guarded by the position alone.
HardSplitRankDecreases ==
    (InHardSplit /\ InHardSplit')
        => /\ RankLess(HardSplitRank(pc', remaining', slice'),
                       HardSplitRank(pc, remaining, slice))
           /\ idx' = idx /\ units' = units

\* C11: the hard split terminates for every oversized unit and every counter:
\* every step of it lowers a well-founded measure (each shrink loop ends, the
\* outer loop ends), each outer turn emits one non-empty fragment and strictly
\* shortens the remainder, and on leaving it the oversized unit stands
\* replaced by one or more fragments.
TextHardSplitTerminates ==
    /\ [][HardSplitProgress /\ HardSplitRankDecreases]_vars
    /\ []OversizedUnitsReplaced

\* C11 witness: a unit over budget has been replaced by two or more fragments,
\* the first of which was shrunk below the first guess of the window.
TextHardSplitShrunk ==
    /\ pc = "done"
    /\ \E k \in OversizedUnits :
          /\ Len(FragmentsOf(k)) >= 2
          /\ Len(FragmentsOf(k)[1]) < Min(GuessChars(opts.maxTokens), Len(units[k]))

-----------------------------------------------------------------------------
(* src/tokenizer.ts: countTokens calls and withTokenizer scopes, one at a   *)
(* time                                                                     *)

\* Longest sequence of countTokens calls.
MaxCalls == 3

\* Three characters in two words: 1 token by the approximation, 3 by
\* cl100k_base, 2 by o200k_base.
AB_TEXT == <<"a", SP, "b">>
SPECIAL_TEXT == <<"a", SPECIAL>>

TokTexts == {AB_TEXT, SPECIAL_TEXT}

\* TokenizerOptions: {model?, approximate?}
TokOpts ==
    { [model |-> "none", approximate |-> TRUE] }
    \cup { [model |-> m, approximate |-> FALSE] : m \in Models }

\* How fn may end by itself: with its result, with an early `return;`, or
\* with an error of its own ('Provide --text or --file').
FnOutcomes ==
    { [kind |-> "returned", value |-> "result"],
      [kind |-> "returned", value |-> "undefined"],
      [kind |-> "threw", value |-> "UsageError"] }

\* A scope that releases the encoder only when fn did not throw.
ReleaseUnlessThrew(outcome, free) == free /\ outcome.kind # "threw"

\* `cachedFree?.()` in the finally block: the closure is called iff there is
\* one, however fn ended.
ReleaseOnSettle(outcome, free) == free

\* enc.free?.() of the cached encoder, the one created last.
FreeCached(encs) ==
    [i \in 1..Len(encs) |-> IF i = Len(encs) THEN [encs[i] EXCEPT !.freed = TRUE]
                            ELSE encs[i]]

\* countTokens(t, o), called by fn inside a scope or directly with none open.
\* An error of the call ends fn, which does not catch it.
TokCount ==
    /\ pc = "tok"
    /\ scope \in {"none", "running"}
    /\ Len(countLog) < MaxCalls
    /\ \E t \in TokTexts, o \in TokOpts :
          /\ nCounts' = nCounts + 1
          /\ countLog' = Append(countLog, LogEntry("call", cachedEncode, tiktokenOk, o, t))
          /\ cachedEncode' = CacheAfter(cachedEncode, tiktokenOk, o)
          /\ cachedFree' = (CacheAfter(cachedEncode, tiktokenOk, o) # "null")
          /\ encoders' = EncodersAfter(encoders, cachedEncode, tiktokenOk, o)
          /\ IF scope = "running" /\ CountThrows(cachedEncode, tiktokenOk, o, t)
             THEN /\ scope' = "finally"
                  /\ fnOutcome' = [kind |-> "threw", value |-> "TokenizationFailure"]
             ELSE UNCHANGED <<scope, fnOutcome>>
    /\ UNCHANGED <<delivered, tasks, cliVars, envVars, pc, error, ioLog, currentTokens,
                   textVars, csvVars>>

\* withTokenizer(fn) is called and fn starts.
ScopeEnter ==
    /\ pc = "tok"
    /\ scope = "none"
    /\ scope' = "running"
    /\ UNCHANGED <<tokVars, fnOutcome, delivered, tasks, cliVars, envVars, pc, error, nCounts,
                   countLog, ioLog, currentTokens, textVars, csvVars>>

\* fn ends by itself.
FnEnds ==
    /\ pc = "tok"
    /\ scope = "running"
    /\ \E out \in FnOutcomes : fnOutcome' = out
    /\ scope' = "finally"
    /\ UNCHANGED <<tokVars, delivered, tasks, cliVars, envVars, pc, error, nCounts,
                   countLog, ioLog, currentTokens, textVars, csvVars>>

\* The finally block of withTokenizer, then its promise settles as fn's did.
ScopeFinally ==
    /\ pc = "tok"
    /\ scope = "finally"
    /\ IF ReleaseOnSettle(fnOutcome, cachedFree)
       THEN /\ encoders' = FreeCached(encoders)
            /\ cachedEncode' = "null"
            /\ cachedFree' = FALSE
       ELSE UNCHANGED tokVars
    /\ delivered' = fnOutcome
    /\ scope' = "settled"
    /\ UNCHANGED <<fnOutcome, tasks, cliVars, envVars, pc, error, nCounts, countLog,
                   ioLog, currentTokens, textVars, csvVars>>

\* The caller goes on after the scope.
ScopeLeave ==
    /\ pc = "tok"
    /\ scope = "settled"
    /\ scope' = "none"
    /\ fnOutcome' = NoOutcome
    /\ delivered' = NoOutcome
    /\ UNCHANGED <<tokVars, tasks, cliVars, envVars, pc, error, nCounts, countLog, ioLog,
                   currentTokens, textVars, csvVars>>

\* The options of no packer call.
NoOpts == [model |-> "none", approximate |-> FALSE]

InitTok ==
    /\ TokenizerFresh
    /\ ScopeIdle
    /\ CliIdle
    /\ tiktokenOk \in BOOLEAN
    /\ opts = NoOpts
    /\ pc = "tok"
    /\ error = "none"
    /\ ioLog = {}
    /\ currentTokens = 0
    /\ TextIdle
    /\ CsvIdle

NextTok == TokCount \/ ScopeEnter \/ FnEnds \/ ScopeFinally \/ ScopeLeave

SpecTok == InitTok /\ [][NextTok]_vars

-----------------------------------------------------------------------------
(* The token counter: the properties                                        *)

\* What countTokens(s, o) gives when nothing was counted before it.
FreshCount(o, s) ==
    [threw |-> CountThrows("null", tiktokenOk, o, s),
     result |-> IF CountThrows("null", tiktokenOk, o, s) THEN 0
                ELSE CountTokens("null", tiktokenOk, o, s)]

Outcome(c) == [threw |-> c.threw, result |-> c.result]

\* C12 (as claimed): what a count call returns depends on its text and its
\* options alone: two calls with the same text and options give the same, and
\* every call gives what the encoder selected for its own model hint gives,
\* whatever was counted before it.
CountDependsOnlyOnArguments ==
    /\ \A i, j \in 1..Len(countLog) :
          (countLog[i].text = countLog[j].text /\ countLog[i].o = countLog[j].o)
              => Outcome(countLog[i]) = Outcome(countLog[j])
    /\ \A i \in 1..Len(countLog) :
          Outcome(countLog[i]) = FreshCount(countLog[i].o, countLog[i].text)

\* The encoders created and not freed.
LiveEncoders == {i \in 1..Len(encoders) : ~encoders[i].freed}

\* When a scope has settled, every encoder created so far, the one acquired
\* during fn among them, has been freed, the cache is empty, and the scope
\* settled as fn did.
ScopeSettledState ==
    /\ scope = "settled"
          => /\ LiveEncoders = {}
             /\ cachedEncode = "null" /\ cachedFree = FALSE
             /\ fnOutcome.kind \in {"returned", "threw"}
             /\ delivered = fnOutcome
    /\ scope \in {"none", "running"} => delivered = NoOutcome
    /\ Cardinality(LiveEncoders) <= 1
    /\ (cachedEncode # "null") <=> cachedFree
    /\ (cachedEncode # "null") <=> (LiveEncoders = {Len(encoders)})

\* The step that settles a scope leaves fn's outcome as it was, and it is the
\* only step that frees an encoder.
ScopeSettleStep ==
    /\ (scope = "finally" /\ scope' = "settled")
          => fnOutcome' = fnOutcome /\ countLog' = countLog
    /\ (\E i \in LiveEncoders : encoders'[i].freed) => scope' = "settled"

\* C13: whenever withTokenizer(fn) settles, whether fn returned, returned
\* early or threw, the encoder acquired during fn has been freed, cachedEncode
\* and cachedFree are empty, and fn's result or error is passed through
\* unchanged.
ScopeReleasesEncoder == []ScopeSettledState /\ [][ScopeSettleStep]_vars

\* C13 witness: a scope has settled with the error of a count call that had
\* first acquired an encoder.
ScopeSettledAfterThrow ==
    /\ scope = "settled"
    /\ delivered = [kind |-> "threw", value |-> "TokenizationFailure"]
    /\ countLog[Len(countLog)].before = "null"
    /\ encoders # <<>>

\* A call on the approximate path: approximation forced, or no encoder to be
\* had.
OnApproximatePath(c) == c.o.approximate \/ ~tiktokenOk

\* What every call on the approximate path has done: it did not throw, it
\* returned approximateTokenCount of its text, and it left the cache as it
\* found it; without tiktoken no encoder is ever cached or created.
ApproximatePathState ==
    /\ \A i \in 1..Len(countLog) :
          OnApproximatePath(countLog[i])
              => /\ ~countLog[i].threw
                 /\ countLog[i].result = approximateTokenCount(countLog[i].text)
                 /\ countLog[i].after = countLog[i].before
    /\ ~tiktokenOk => cachedEncode = "null" /\ ~cachedFree /\ encoders = <<>>

\* The step of such a call touches neither the cache nor the encoders, and
\* ends no scope.
ApproximatePathStep ==
    (Len(countLog') = Len(countLog) + 1
        /\ OnApproximatePath(countLog'[Len(countLog')]))
        => UNCHANGED <<tokVars, scopeVars>>

-----------------------------------------------------------------------------
(* src/tokenizer.ts: approximateTokenCount on every short text              *)

\* Longest text, in characters.
MaxChars == 7

\* A letter, a punctuation mark and two kinds of white space.
Alphabet == {"a", ".", SP, NL}

ShortTexts == UNION {[1..n -> Alphabet] : n \in 0..MaxChars}

\* White space before, inside and after: "....... a" once normalised.
RAGGED_TEXT == <<NL, SP>> \o Rep(".", 7) \o <<SP, NL, SP, "a", SP>>

ForcedApproximation == [model |-> "none", approximate |-> TRUE]

\* countTokens(text, {approximate: true})
ApproxCall ==
    /\ pc = "approx_start"
    /\ nCounts' = nCounts + 1
    /\ countLog' = Append(countLog, LogEntry("call", cachedEncode, tiktokenOk, opts, text))
    /\ cachedEncode' = CacheAfter(cachedEncode, tiktokenOk, opts)
    /\ cachedFree' = (CacheAfter(cachedEncode, tiktokenOk, opts) # "null")
    /\ encoders' = EncodersAfter(encoders, cachedEncode, tiktokenOk, opts)
    /\ pc' = "done"
    /\ UNCHANGED <<scopeVars, cliVars, envVars, error, ioLog, currentTokens, textVars, csvVars>>

InitApprox ==
    /\ TokenizerFresh
    /\ ScopeIdle
    /\ CliIdle
    /\ tiktokenOk = TRUE
    /\ opts = ForcedApproximation
    /\ text \in ShortTexts \cup {RAGGED_TEXT, LONG_UNIT}
    /\ pc = "approx_start"
    /\ error = "none"
    /\ ioLog = {}
    /\ currentTokens = 0
    /\ units = <<>> /\ idx = 0 /\ chunks = <<>> /\ tokenCounts = <<>>
    /\ current = <<>> /\ remaining = <<>> /\ slice = <<>> /\ origin = <<>>
    /\ CsvIdle

NextApprox == ApproxCall

SpecApprox == InitApprox /\ [][NextApprox]_vars

\* The positions of a text that hold no white space.
Solid(s) == {i \in 1..Len(s) : s[i] \notin WhiteSpace}

\* The runs of white space that have a solid character on both sides: one
\* for every solid character, bar the first, that follows white space.
InnerGaps(s) ==
    {i \in Solid(s) : /\ i > 1 /\ s[i - 1] \in WhiteSpace
                      /\ \E j \in Solid(s) : j < i}

\* The least k with k * b >= a.
LeastMultiple(a, b) == CHOOSE k \in 0..a : k * b >= a /\ (k - 1) * b < a

\* The count the formula gives, computed from the text as it stands: n is
\* the solid characters plus one blank for every inner gap, p the
\* punctuation marks.
FormulaCount(s) ==
    LET n == Cardinality(Solid(s)) + Cardinality(InnerGaps(s))
        p == Cardinality({i \in 1..Len(s) : s[i] \in Punctuation})
    IN IF Solid(s) = {} THEN 0
       ELSE LET sum == LeastMultiple(n, 4) + LeastMultiple(p, 6)
            IN IF sum < 1 THEN 1 ELSE sum

\* The normalised text has blanks as its only white space, none at either
\* end and no two in a row, and the solid characters of the text in order.
IsNormalised(s, norm) ==
    /\ \A i \in 1..Len(norm) : norm[i] \in WhiteSpace => norm[i] = SP
    /\ norm # <<>> => norm[1] # SP /\ norm[Len(norm)] # SP
    /\ \A i \in 1..(Len(norm) - 1) : ~(norm[i] = SP /\ norm[i + 1] = SP)
    /\ SelectSeq(norm, LAMBDA c : c # SP) = SelectSeq(s, LAMBDA c : c \notin WhiteSpace)
    /\ Len(norm) = Cardinality(Solid(s)) + Cardinality(InnerGaps(s))

\* C15: approximateTokenCount gives 0 for a text that is empty once its runs
\* of white space are collapsed to one blank and it is trimmed, and otherwise
\* max(1, ceil(n/4) + ceil(p/6)), n the length of the normalised text and p
\* the number of its punctuation marks; the result is a natural number and
\* is 0 for blank text only.
ApproximateCountIsFormula ==
    pc = "done" =>
        LET got == countLog[1]
        IN /\ ~got.threw
           /\ got.result = FormulaCount(text)
           /\ got.result \in Nat
           /\ (got.result = 0) <=> (\A i \in 1..Len(text) : text[i] \in WhiteSpace)
           /\ IsNormalised(text, Normalize(text))

\* C15 witness: the ragged text, 9 characters once normalised, 7 of them
\* punctuation marks, has been counted at 3 + 2 tokens.
ApproximateCountedRagged ==
    /\ pc = "done"
    /\ text = RAGGED_TEXT
    /\ Len(Normalize(text)) = 9
    /\ countLog[1].result = 5

-----------------------------------------------------------------------------
(* src/cli.ts: `token-splitter split --file in.csv`, run after run          *)

\* The number of runs.
MaxRuns == 2

\* 'token_output'
TOKEN_OUTPUT == <<"t", "o", "k", "e", "n", "_", "o", "u", "t", "p", "u", "t">>

\* A directory named with --out.
OUT_FLAG_DIR == <<"o", "u", "t">>

\* path.basename('in.csv', '.csv')
BASE_NAME == <<"i", "n">>

\* A flag that was not given.
NotGiven == <<>>

\* pad(n) of getTimestamp
Pad2(n) == PadStart(ToDigits(n), 2, "0")

\* getTimestamp() at second t of the day, the day being 2026-11-02.
getTimestamp(t) ==
    ToDigits(2026) \o Pad2(11) \o Pad2(2) \o <<"_">>
        \o Pad2(t \div 3600) \o Pad2((t \div 60) % 60) \o Pad2(t % 60)

\* getDefaultOutDir(baseName): the path below the working directory, as its
\* segments.
getDefaultOutDir(baseName, t) ==
    <<TOKEN_OUTPUT, baseName \o <<"_">> \o getTimestamp(t)>>

\* opts.out as commander hands it over: .option('--out <dir>', ..., 'token_output')
OptOut(a) == IF a.out = NotGiven THEN TOKEN_OUTPUT ELSE a.out

\* opts.tokenMode likewise: .option('--tokenMode <mode>', ..., 'cells')
OptTokenMode(a) == IF a.tokenMode = "undefined" THEN "cells" ELSE a.tokenMode

\* `if (opts.out) { outDir = opts.out } else { outDir = getDefaultOutDir(base) }`
SplitOutDir(a, baseName, t) ==
    IF OptOut(a) # <<>> THEN <<OptOut(a)>> ELSE getDefaultOutDir(baseName, t)

\* The command lines explored: --max 4, with and without --out, --tokenMode
\* and --approx.
CliArgvs ==
    { [out |-> o, tokenMode |-> m, approx |-> a, max |-> 4] :
        o \in {NotGiven, OUT_FLAG_DIR}, m \in {"undefined", "line", "cells"},
        a \in BOOLEAN }

\* The input files explored: up to three lines.
CliStreams == UNION {[1..n -> LinePool] : n \in 0..3}

\* The files under the working directory once the files fs of run r stand in
\* directory dir: a file of the same path is overwritten.
DiskWith(d, dir, fs, r) ==
    [k \in DOMAIN d \cup {<<dir, p>> : p \in DOMAIN fs} |->
        IF k[1] = dir /\ k[2] \in DOMAIN fs THEN r ELSE d[k]]

\* The action of the split command up to the call of splitCsvByTokens: the
\* scope opens, the output directory is chosen and created, the options of
\* the call are put together.
CliStart ==
    /\ pc = "cli_start"
    /\ scope' = "running"
    /\ outDir' = SplitOutDir(argv, BASE_NAME, clock)
    /\ runDirs' = Append(runDirs, [dir |-> SplitOutDir(argv, BASE_NAME, clock),
                                   out |-> argv.out, at |-> clock])
    /\ ioLog' = ioLog \cup {"mkdirSync"}
    /\ opts' = CsvOpts([model |-> "none", approximate |-> argv.approx], argv.max,
                       OptTokenMode(argv), TRUE)
    /\ pc' = "csv_start"
    /\ UNCHANGED <<tokVars, fnOutcome, delivered, tasks, argv, clock, run, disk,
                   tiktokenOk, text, inputExists, stream, error, nCounts, countLog,
                   currentTokens, textVars, csvVars>>

\* splitCsvByTokens has returned or thrown: fn ends likewise, the finally
\* block of withTokenizer releases the encoder, the process exits.
CliEnd ==
    /\ pc \in {"done", "failed"}
    /\ scope = "running"
    /\ LET out == IF pc = "done" THEN [kind |-> "returned", value |-> "undefined"]
                  ELSE [kind |-> "threw", value |-> error]
       IN /\ fnOutcome' = out
          /\ delivered' = out
          /\ IF ReleaseOnSettle(out, cachedFree)
             THEN /\ encoders' = FreeCached(encoders)
                  /\ cachedEncode' = "null"
                  /\ cachedFree' = FALSE
             ELSE UNCHANGED tokVars
    /\ scope' = "settled"
    /\ disk' = DiskWith(disk, outDir, files, run)
    /\ pc' = "cli_exit"
    /\ UNCHANGED <<tasks, argv, clock, run, outDir, runDirs, envVars, error, nCounts,
                   countLog, ioLog, currentTokens, textVars, csvVars>>

\* The command is run again, later, on the same input: a new process.
CliNextRun ==
    /\ pc = "cli_exit"
    /\ run < MaxRuns
    /\ run' = run + 1
    /\ \E d \in {1, 60} : clock' = clock + d
    /\ argv' \in CliArgvs
    /\ cachedEncode' = "null" /\ cachedFree' = FALSE /\ encoders' = <<>>
    /\ nCounts' = 0 /\ countLog' = <<>>
    /\ scope' = "none" /\ fnOutcome' = NoOutcome /\ delivered' = NoOutcome
    /\ outDir' = <<>>
    /\ pc' = "cli_start" /\ error' = "none" /\ ioLog' = {} /\ currentTokens' = 0
    /\ header' = NoHeader /\ part' = 0 /\ currentLines' = <<>>
    /\ partPaths' = <<>> /\ pos' = 0 /\ files' = <<>>
    /\ UNCHANGED <<tasks, runDirs, disk, envVars, textVars>>

InitCli ==
    /\ TokenizerFresh
    /\ ScopeIdle
    /\ argv \in CliArgvs
    /\ clock = 0
    /\ run = 1
    /\ outDir = <<>>
    /\ runDirs = <<>>
    /\ disk = <<>>
    /\ tiktokenOk = TRUE
    /\ opts = NoOpts
    /\ inputExists = TRUE
    /\ stream \in CliStreams
    /\ pc = "cli_start"
    /\ error = "none"
    /\ ioLog = {}
    /\ currentTokens = 0
    /\ header = NoHeader
    /\ part = 0
    /\ currentLines = <<>>
    /\ partPaths = <<>>
    /\ pos = 0
    /\ files = <<>>
    /\ TextIdle

NextCli ==
    \/ CliStart
    \/ CsvStart \/ CsvSkipBlank \/ CsvHeader \/ CsvRow \/ CsvEnd
    \/ CliEnd
    \/ CliNextRun

SpecCli == InitCli /\ [][NextCli]_vars

-----------------------------------------------------------------------------
(* The split command: the properties                                        *)

\* The files under the working directory as they stand, those of the run
\* under way included.
DiskNow == DiskWith(disk, outDir, files, run)

\* C16 (as claimed): a run without --out writes into
\* token_output/<input_name>_<timestamp of the run>; two runs without --out
\* never use the same directory, and the directory of such a run holds the
\* files of that run only.
CliDefaultOutDirIsFresh ==
    /\ \A r \in 1..Len(runDirs) :
          runDirs[r].out = NotGiven
              => /\ runDirs[r].dir = getDefaultOutDir(BASE_NAME, runDirs[r].at)
                 /\ \A k \in DOMAIN DiskNow : k[1] = runDirs[r].dir => DiskNow[k] = r
    /\ \A r1, r2 \in 1..Len(runDirs) :
          (r1 < r2 /\ runDirs[r1].out = NotGiven /\ runDirs[r2].out = NotGiven)
              => runDirs[r1].dir # runDirs[r2].dir

\* C17 (as claimed): a run without --tokenMode counts every row as its raw
\* line, 'line' being the default of the command as it is of splitCsvByTokens.
CliDefaultTokenModeIsLine ==
    /\ TokenMode([tokenMode |-> "undefined"]) = "line"
    /\ (argv.tokenMode = "undefined" /\ pc # "cli_start")
          => /\ TokenMode(opts) = "line"
             /\ \A i \in 1..Len(countLog) : countLog[i].text = DataRows(pos)[i]

-----------------------------------------------------------------------------
(* splitTextIntoTokenChunks: fragments, counts and count calls              *)

\* The shortest window a shrink step can leave: 85% of the shortest window
\* that is longer than the floor.
ShortestShrunk == ((MinSliceChars + 1) * ShrinkPercent) \div 100

\* Every fragment is within budget or at most 50 characters long, and its
\* recorded count is that of the last count call; no window is empty.
FragmentsWithinBudgetOrShort ==
    /\ \A i \in 1..Len(chunks) :
          origin[i].frag
              => /\ tokenCounts[i] <= opts.maxTokens \/ Len(chunks[i]) <= MinSliceChars
                 /\ Len(chunks[i]) > 0
    /\ pc \in {"shrink", "emit"} => Len(slice) > 0

\* A shrink step is taken on a window longer than 50 characters and over
\* budget only, and leaves its first 85% (rounded down), 43 characters at
\* least; a window is passed on for emission when it is within budget or at
\* most 50 characters long.
ShrinkStaysAboveFloor ==
    /\ (pc = "shrink" /\ pc' = "shrink")
          => /\ Len(slice) > MinSliceChars
             /\ countLog'[Len(countLog')].result > opts.maxTokens
             /\ Len(slice') = (Len(slice) * ShrinkPercent) \div 100
             /\ Len(slice') >= ShortestShrunk
             /\ IsPrefix(slice', slice)
    /\ (pc = "shrink" /\ pc' = "emit")
          => \/ countLog'[Len(countLog')].result <= opts.maxTokens
             \/ Len(slice) <= MinSliceChars

\* C18: every fragment of the hard split has a recount <= maxTokens or is at
\* most 50 characters long; a fragment longer than 50 characters is never
\* over budget; a window is never shrunk below the floor of 50 characters by
\* more than one step of 85%, and never to nothing.
TextFragmentsRespectFloor ==
    []FragmentsWithinBudgetOrShort /\ [][ShrinkStaysAboveFloor]_vars

\* C18 witness: a call has returned a fragment that is over budget and was
\* shrunk once past the floor, and a fragment of more than 50 characters,
\* which is within budget.
TextFragmentShrunkPastFloor ==
    /\ pc = "done"
    /\ \E i \in 1..Len(chunks) :
          /\ origin[i].frag
          /\ tokenCounts[i] > opts.maxTokens
          /\ Len(chunks[i]) >= ShortestShrunk
          /\ Len(chunks[i]) < MinSliceChars
    /\ \E i \in 1..Len(chunks) :
          /\ origin[i].frag
          /\ Len(chunks[i]) > MinSliceChars
          /\ tokenCounts[i] <= opts.maxTokens

-----------------------------------------------------------------------------
(* Both packers: the order of the count calls                               *)

InitPackers == InitCsv \/ InitText

NextPackers == NextCsv \/ NextText

\* A call of splitCsvByTokens or a call of splitTextIntoTokenChunks.
SpecPackers == InitPackers /\ [][NextPackers]_vars

\* The call under way is one of splitCsvByTokens, past its first check.
IsCsvRun == "existsSync" \in ioLog

\* It is one of splitTextIntoTokenChunks, past its check of maxTokens.
IsTextRun ==
    \/ pc \in {"text_loop", "hard_split", "shrink", "emit"}
    \/ pc \in {"done", "failed"} /\ ioLog = {} /\ units # <<>>

CountedTexts == [i \in 1..Len(countLog) |-> countLog[i].text]

\* The calls issued by the unit loop, in order.
UnitCalls == SelectSeq(countLog, LAMBDA c : c.kind = "unit")

\* The index of the last call before call i that the unit loop issued, 0 if
\* there is none.
UnitCallBefore(i) ==
    LET J == {j \in 1..(i - 1) : countLog[j].kind = "unit"}
    IN IF J = {} THEN 0 ELSE CHOOSE j \in J : \A k \in J : j >= k

\* a stands in b as a run of consecutive characters.
IsPartOf(a, b) ==
    \E k \in 0..(Len(b) - Len(a)) : SubSeq(b, k + 1, k + Len(a)) = a

\* splitCsvByTokens: the calls issued so far are those for the data rows read
\* so far, one each and in order, header and blank lines left out; and every
\* row counted has been placed, in a part written or in the open part.
CsvCountsRowsInOrder ==
    IsCsvRun =>
        /\ nCounts = Len(countLog)
        /\ \A i \in 1..Len(countLog) : countLog[i].kind = "row"
        /\ CountedTexts = [i \in 1..Len(DataRows(pos)) |->
                              RowTextForTokens(opts, DataRows(pos)[i])]
        /\ pc \in {"csv_loop", "done"} => WrittenRows \o currentLines = DataRows(pos)

\* splitTextIntoTokenChunks, the unit loop: its calls are those for the units
\* reached so far, one each and in order.
TextCountsUnitsInOrder ==
    IsTextRun =>
        /\ nCounts = Len(countLog)
        /\ [i \in 1..Len(UnitCalls) |-> UnitCalls[i].text] = SubSeq(units, 1, idx)

\* C19 (as claimed): splitCsvByTokens issues exactly one count call per data
\* row and splitTextIntoTokenChunks exactly one per unit, in input order.
CountsOncePerRowAndUnit ==
    /\ CsvCountsRowsInOrder
    /\ TextCountsUnitsInOrder
    /\ IsTextRun => CountedTexts = SubSeq(units, 1, idx)

\* The other calls of splitTextIntoTokenChunks: each counts a window of the
\* unit counted last before it, which was over budget.
WindowCallsFollowOversizedUnit ==
    IsTextRun =>
        \A i \in 1..Len(countLog) :
            countLog[i].kind # "unit"
                => /\ countLog[i].kind \in {"window", "fragment"}
                   /\ UnitCallBefore(i) > 0
                   /\ ~countLog[UnitCallBefore(i)].threw
                   /\ countLog[UnitCallBefore(i)].result > opts.maxTokens
                   /\ IsPartOf(countLog[i].text, countLog[UnitCallBefore(i)].text)

\* One call at a time: a step issues at most one call, which has returned or
\* thrown when the step is over, and the calls before it stay as they were.
OneCountPerStep ==
    \/ countLog' = countLog /\ nCounts' = nCounts
    \/ /\ Len(countLog') = Len(countLog) + 1
       /\ SubSeq(countLog', 1, Len(countLog)) = countLog
       /\ nCounts' = nCounts + 1

\* C19 (amended): count calls are issued one at a time and in input order:
\* one per data row by splitCsvByTokens, the row before it placed, header and
\* blank lines never counted; one per unit by the unit loop of
\* splitTextIntoTokenChunks, which for a unit over budget goes on to count
\* windows of that unit before it counts the next unit.
CountsOneAtATimeInOrder ==
    /\ [](CsvCountsRowsInOrder /\ TextCountsUnitsInOrder /\ WindowCallsFollowOversizedUnit)
    /\ [][OneCountPerStep]_vars

\* C19 witness: a call of splitTextIntoTokenChunks has returned after three
\* units, one of which took calls on windows, and one of those windows was
\* the whole unit, counted again.
TextCountedWindows ==
    /\ IsTextRun
    /\ pc = "done"
    /\ Len(UnitCalls) >= 3
    /\ \E i \in 1..Len(countLog) :
          /\ countLog[i].kind = "window"
          /\ countLog[i].text = countLog[UnitCallBefore(i)].text

-----------------------------------------------------------------------------
(* splitTextIntoTokenChunks: the recorded counts                            *)

\* The sum of the counts of the units numbered ids.
UnitsTotal(ids) == SumSeq([j \in 1..Len(ids) |-> UnitTokens(units[ids[j]])])

\* C20: chunks and tokenCounts are of equal length, entry i of the one
\* belonging to entry i of the other: the count recorded for a packed chunk,
\* which is its units joined, is the sum of the counts of those units, and
\* the count recorded for a fragment of the hard split is the count of the
\* fragment's text; the total of the open chunk is the sum of its units'.
TextCountsParallelToChunks ==
    /\ Len(tokenCounts) = Len(chunks)
    /\ Len(origin) = Len(chunks)
    /\ PackedChunksAreJoins
    /\ \A i \in 1..Len(chunks) :
          IF origin[i].frag
          THEN tokenCounts[i] = UnitTokens(chunks[i])
          ELSE tokenCounts[i] = UnitsTotal(origin[i].ids)
    /\ pc \in {"text_loop", "hard_split", "shrink", "emit"}
          => currentTokens = SumSeq([j \in 1..Len(current) |-> UnitTokens(current[j])])

\* C20 witness: a call has returned a chunk of two units or more, recorded
\* at the sum of their counts, which is not what the chunk's own text counts
\* to, next to a fragment recorded at its recount.
TextRecordedSumAndRecount ==
    /\ pc = "done"
    /\ \E i \in 1..Len(chunks) :
          /\ ~origin[i].frag
          /\ Len(origin[i].ids) >= 2
          /\ tokenCounts[i] # UnitTokens(chunks[i])
    /\ \E i \in 1..Len(chunks) : origin[i].frag /\ tokenCounts[i] > 0

-----------------------------------------------------------------------------
(* Empty and white-space-only text                                          *)

\* text.trim() is the empty string.
IsBlankText(t) == \A i \in 1..Len(t) : t[i] \in WhiteSpace

\* The one unit, and the one chunk, of a blank text.
EMPTY_STRING == <<>>

\* C21: for an empty or white-space-only text, in every mode and for every
\* maxTokens > 0, the segmenter yields the single unit "" and the call
\* returns exactly one chunk, the empty string, recorded at 0 tokens (the
\* count of the empty string); it neither fails nor returns no chunk.
TextBlankYieldsOneEmptyChunk ==
    (IsBlankText(text) /\ opts.maxTokens > 0) =>
        /\ pc \in {"text_start", "text_loop", "done"}
        /\ error = "none"
        /\ pc # "text_start" => units = <<EMPTY_STRING>>
        /\ \A i \in 1..Len(countLog) :
              /\ countLog[i].text = EMPTY_STRING
              /\ ~countLog[i].threw
              /\ countLog[i].result = 0
        /\ pc = "done" =>
              /\ chunks = <<EMPTY_STRING>>
              /\ tokenCounts = <<0>>
              /\ Len(countLog) = 1

\* A call on white space that holds a line break has returned its one empty
\* chunk, counted by the exact encoder.
TextBlankReturned ==
    /\ pc = "done"
    /\ Len(text) = MaxBlank
    /\ IsBlankText(text)
    /\ \E i \in 1..Len(text) : text[i] = NL
    /\ Mode(opts) = "line"
    /\ ~opts.approximate /\ cachedEncode # "null"
    /\ chunks = <<EMPTY_STRING>>
    /\ tokenCounts = <<0>>

-----------------------------------------------------------------------------
(* splitCsvByTokens: the open part                                          *)

\* The sum of the counts of the rows held in currentLines.
OpenPartTotal ==
    SumSeq([i \in 1..Len(currentLines) |-> RowTokens(currentLines[i])])

\* Between row steps the open part is consistent and within budget, and it
\* holds nothing but the data rows read since the last part was written.
CsvOpenPartState ==
    pc \in {"csv_loop", "done", "failed"} =>
        /\ currentTokens = OpenPartTotal
        /\ opts.maxTokens > 0 => currentTokens <= opts.maxTokens
        /\ currentLines = <<>> => currentTokens = 0
        /\ \A i \in 1..Len(currentLines) :
              RowTokens(currentLines[i]) <= opts.maxTokens
        /\ pc = "csv_loop" =>
              currentLines = SubSeq(DataRows(pos), Len(WrittenRows) + 1,
                                    Len(DataRows(pos)))
        /\ pc = "done" => currentLines = <<>> /\ currentTokens = 0

\* A step that writes a part leaves the open part reset: empty at 0 tokens,
\* or holding the row just read and nothing of what was flushed.
CsvFlushResets ==
    part' # part =>
        /\ part' \in {part + 1, part + 2}
        /\ \/ currentLines' = <<>> /\ currentTokens' = 0
           \/ /\ pos' = pos + 1
              /\ part' = part + 1
              /\ currentLines' = <<stream[pos']>>
              /\ Len(currentLines) > 0

\* C22: between the row steps of splitCsvByTokens the open part is consistent
\* and bounded: currentTokens is the sum of the counts of the rows in
\* currentLines and is at most maxTokens, an empty currentLines goes with
\* currentTokens = 0, and every flush resets both; the rows held are those of
\* the one open part, never more than one budget's worth.
CsvOpenPartConsistent == []CsvOpenPartState /\ [][CsvFlushResets]_vars

\* A part has been written and the next one is open with two rows in it,
\* within budget.
CsvOpenPartAfterFlush ==
    /\ pc = "csv_loop"
    /\ part >= 1
    /\ Len(currentLines) >= 2
    /\ currentTokens > 0
    /\ currentTokens = OpenPartTotal

-----------------------------------------------------------------------------
(* src/tokenizer.ts, step by step: callers that overlap                     *)

\* Callers of the counter in one process whose awaits may interleave.
MaxTasks == 2

Tasks == 1..MaxTasks

\* A caller awaits countTokens calls one after the other, directly ("call")
\* or as the fn of a withTokenizer scope ("scope").
TaskKinds == {"call", "scope"}

\* No encoder of the history.
NoEncoder == 0

\* A caller before its first step. enc is the encoder (its place in the
\* history) that initTiktoken found or created for the call under way.
NewTask(kind) ==
    [kind |-> kind, pc |-> IF kind = "scope" THEN "idle" ELSE "ready",
     text |-> <<>>, o |-> NoOpts, enc |-> NoEncoder, result |-> 0, threw |-> FALSE]

\* The encoding of the encoder initTiktoken creates past its first line.
CreatedEncoding(modelHint) == InitTiktoken("null", TRUE, modelHint)

\* How the fn of a scope ended.
TaskOutcome(t) ==
    IF tasks[t].threw THEN [kind |-> "threw", value |-> "TokenizationFailure"]
    ELSE [kind |-> "returned", value |-> "result"]

OverlapFrame ==
    UNCHANGED <<scope, fnOutcome, delivered, cliVars, envVars, pc, error, countLog,
                ioLog, currentTokens, textVars, csvVars>>

\* withTokenizer(fn) is called and fn starts.
TaskScopeEnter ==
    /\ pc = "overlap"
    /\ \E t \in Tasks :
          /\ tasks[t].pc = "idle"
          /\ tasks' = [tasks EXCEPT ![t].pc = "ready"]
    /\ UNCHANGED <<tokVars, nCounts>>
    /\ OverlapFrame

\* countTokens(s, o) up to its first await: the approximate return, or
\* initTiktoken up to its own first await (the return of its first line when
\* the cache is set, the import otherwise).
TaskCallBegin ==
    /\ pc = "overlap"
    /\ nCounts < MaxCalls
    /\ \E t \in Tasks, s \in TokTexts, o \in TokOpts :
          /\ tasks[t].pc = "ready"
          /\ tasks' = [tasks EXCEPT ![t] =
                IF o.approximate
                THEN [@ EXCEPT !.text = s, !.o = o, !.enc = NoEncoder,
                               !.result = approximateTokenCount(s)]
                ELSE IF cachedEncode # "null"
                THEN [@ EXCEPT !.text = s, !.o = o, !.enc = Len(encoders),
                               !.pc = "initialised"]
                ELSE [@ EXCEPT !.text = s, !.o = o, !.enc = NoEncoder,
                               !.pc = "importing"]]
    /\ nCounts' = nCounts + 1
    /\ UNCHANGED tokVars
    /\ OverlapFrame

\* initTiktoken after `await import('tiktoken')`: the encoder is created and
\* both cache variables are assigned, or the catch block empties them.
TaskImportDone ==
    /\ pc = "overlap"
    /\ \E t \in Tasks :
          /\ tasks[t].pc = "importing"
          /\ IF tiktokenOk
             THEN /\ encoders' = Append(encoders,
                        [encoding |-> CreatedEncoding(tasks[t].o.model), freed |-> FALSE])
                  /\ cachedEncode' = CreatedEncoding(tasks[t].o.model)
                  /\ cachedFree' = TRUE
                  /\ tasks' = [tasks EXCEPT ![t].pc = "initialised",
                                            ![t].enc = Len(encoders) + 1]
             ELSE /\ cachedEncode' = "null"
                  /\ cachedFree' = FALSE
                  /\ UNCHANGED encoders
                  /\ tasks' = [tasks EXCEPT ![t].pc = "initialised"]
    /\ UNCHANGED nCounts
    /\ OverlapFrame

\* countTokens after `await initTiktoken(model)`: the cached encoder counts
\* if there is one now, the approximation otherwise. An error of the encoder
\* ends a direct caller and is the outcome of a scope's fn.
TaskCountResume ==
    /\ pc = "overlap"
    /\ \E t \in Tasks :
          /\ tasks[t].pc = "initialised"
          /\ tasks' = [tasks EXCEPT ![t] =
                IF cachedEncode = "null"
                THEN [@ EXCEPT !.result = approximateTokenCount(tasks[t].text),
                               !.pc = "ready"]
                ELSE IF EncodeThrows(tasks[t].text)
                THEN [@ EXCEPT !.threw = TRUE,
                               !.pc = IF tasks[t].kind = "scope" THEN "settling" ELSE "done"]
                ELSE [@ EXCEPT !.result = EncodeLength(cachedEncode, tasks[t].text),
                               !.pc = "ready"]]
    /\ UNCHANGED <<tokVars, nCounts>>
    /\ OverlapFrame

\* The fn of a scope returns.
TaskFnEnds ==
    /\ pc = "overlap"
    /\ \E t \in Tasks :
          /\ tasks[t].kind = "scope"
          /\ tasks[t].pc = "ready"
          /\ tasks' = [tasks EXCEPT ![t].pc = "settling"]
    /\ UNCHANGED <<tokVars, nCounts>>
    /\ OverlapFrame

\* withTokenizer after `await fn()`: the finally block.
TaskScopeFinally ==
    /\ pc = "overlap"
    /\ \E t \in Tasks :
          /\ tasks[t].pc = "settling"
          /\ tasks' = [tasks EXCEPT ![t].pc = "done"]
          /\ IF ReleaseOnSettle(TaskOutcome(t), cachedFree)
             THEN /\ encoders' = FreeCached(encoders)
                  /\ cachedEncode' = "null"
                  /\ cachedFree' = FALSE
             ELSE UNCHANGED tokVars
    /\ UNCHANGED nCounts
    /\ OverlapFrame

InitOverlap ==
    /\ TokenizerFresh
    /\ scope = "none"
    /\ fnOutcome = NoOutcome
    /\ delivered = NoOutcome
    /\ tasks \in [Tasks -> {NewTask(k) : k \in TaskKinds}]
    /\ CliIdle
    /\ tiktokenOk \in BOOLEAN
    /\ opts = NoOpts
    /\ pc = "overlap"
    /\ error = "none"
    /\ ioLog = {}
    /\ currentTokens = 0
    /\ TextIdle
    /\ CsvIdle

NextOverlap ==
    \/ TaskScopeEnter
    \/ TaskCallBegin
    \/ TaskImportDone
    \/ TaskCountResume
    \/ TaskFnEnds
    \/ TaskScopeFinally

SpecOverlap == InitOverlap /\ [][NextOverlap]_vars

\* At most one encoder is held.
OverlapOneEncoder == Cardinality(LiveEncoders) <= 1

\* Every caller is a scope, and every scope has settled.
AllScopesSettled ==
    \A t \in Tasks : tasks[t].kind = "scope" /\ tasks[t].pc = "done"

\* Once they have, every encoder created has been freed.
OverlapAllFreed == AllScopesSettled => LiveEncoders = {}

\* A running scope still has the encoder its last count call found or
\* created: no other scope's end has freed it, be it between two of its calls
\* or between the initialisation and the encoding of one.
OverlapNoFreeUnderUse ==
    \A t \in Tasks :
        (tasks[t].kind = "scope" /\ tasks[t].pc \in {"ready", "initialised"}
            /\ tasks[t].enc # NoEncoder)
        => ~encoders[tasks[t].enc].freed

\* C23 (as claimed): under every interleaving of count calls and
\* withTokenizer scopes the counter holds at most one encoder at a time and
\* every encoder created is freed by the time the scopes have settled: calls
\* that overlap during initialisation do not create two encoders, and the
\* end of one scope frees no encoder that a running scope is about to use.
CounterHoldsOneEncoderUnderOverlap ==
    /\ OverlapOneEncoder
    /\ OverlapAllFreed
    /\ OverlapNoFreeUnderUse

====
